---- MODULE Spec2Model ----
\* Model of the fuelers-go monorepo tooling: go-workspace-sync.ts (sync),
\* make-app.ts / make-package.ts (scaffold) and deploy-service.ts (deploy).
\* A string is a sequence of one-character strings; a fixed text of the source
\* that is never inspected is kept as one element.
EXTENDS Integers, Sequences, FiniteSets, TLC

VARIABLES
  pkgJson,      \* root package.json: "absent" or [packageManager, workspaces]
  lockFiles,    \* lock files present in ROOT
  pnpmWs,       \* pnpm-workspace.yaml: "absent" or its sequence of lines
  tree,         \* ROOT/<dir>: "absent" or [child name -> "absent" | entry]
  goWork,       \* go.work: "absent" or its content
  dirty,        \* some file or directory changed since the last sync run
  syncRun,      \* result of the last sync run
  inv,          \* the scaffold invocations, one record per process
  dep,          \* the deploy invocation
  inp,          \* the function applied on its own and its argument
  out           \* its result

vars == <<pkgJson, lockFiles, pnpmWs, tree, goWork, dirty, syncRun, inv, dep, inp, out>>

fsVars == <<pkgJson, lockFiles, pnpmWs, tree, goWork>>

\* ---------------------------------------------------------------- bounds
MaxChildren == 2
MaxEntries == 3
MaxGlobs == 3

\* ---------------------------------------------------------------- strings
\* characters in ascending UTF-16 code unit order (the order of Array.sort)
CharOrder ==
  <<"\t", "\n", " ", "*", ",", "-", ".", "/", "0", "1", "9", "@",
    "A", "G", "L", "M", "P", "Z", "_",
    "a", "b", "c", "d", "e", "g", "h", "k", "l", "n", "o", "p", "r", "s", "t",
    "u", "w", "y", "z">>

Code(c) == CHOOSE i \in 1..Len(CharOrder) : CharOrder[i] = c

LowerLetters ==
  {"a", "b", "c", "d", "e", "f", "g", "h", "i", "j", "k", "l", "m", "n", "o",
   "p", "q", "r", "s", "t", "u", "v", "w", "x", "y", "z"}

Digits == {"0", "1", "2", "3", "4", "5", "6", "7", "8", "9"}

UpperOf ==
  [c \in LowerLetters |->
     CASE c = "a" -> "A" [] c = "b" -> "B" [] c = "c" -> "C" [] c = "d" -> "D"
       [] c = "e" -> "E" [] c = "f" -> "F" [] c = "g" -> "G" [] c = "h" -> "H"
       [] c = "i" -> "I" [] c = "j" -> "J" [] c = "k" -> "K" [] c = "l" -> "L"
       [] c = "m" -> "M" [] c = "n" -> "N" [] c = "o" -> "O" [] c = "p" -> "P"
       [] c = "q" -> "Q" [] c = "r" -> "R" [] c = "s" -> "S" [] c = "t" -> "T"
       [] c = "u" -> "U" [] c = "v" -> "V" [] c = "w" -> "W" [] c = "x" -> "X"
       [] c = "y" -> "Y" [] c = "z" -> "Z"]

toUpperCase(c) == IF c \in LowerLetters THEN UpperOf[c] ELSE c

\* String.prototype.endsWith
EndsWith(s, suf) ==
  /\ Len(s) >= Len(suf)
  /\ SubSeq(s, Len(s) - Len(suf) + 1, Len(s)) = suf

\* String.prototype.startsWith
StartsWith(s, pre) ==
  /\ Len(s) >= Len(pre)
  /\ SubSeq(s, 1, Len(pre)) = pre

DropLast(s, n) == SubSeq(s, 1, Len(s) - n)

\* s < t in the order of the default Array.prototype.sort comparator
RECURSIVE StrLess(_, _)
StrLess(s, t) ==
  IF t = <<>> THEN FALSE
  ELSE IF s = <<>> THEN TRUE
  ELSE IF Head(s) = Head(t) THEN StrLess(Tail(s), Tail(t))
  ELSE Code(Head(s)) < Code(Head(t))

RECURSIVE InsertSorted(_, _)
InsertSorted(x, sorted) ==
  IF sorted = <<>> THEN <<x>>
  ELSE IF StrLess(x, Head(sorted)) THEN <<x>> \o sorted
  ELSE <<Head(sorted)>> \o InsertSorted(x, Tail(sorted))

\* Array.prototype.sort() with no comparator, on strings
RECURSIVE sort(_)
sort(seq) ==
  IF seq = <<>> THEN <<>> ELSE InsertSorted(Head(seq), sort(Tail(seq)))

\* Array.prototype.join
RECURSIVE join(_, _)
join(lines, sep) ==
  IF lines = <<>> THEN <<>>
  ELSE IF Len(lines) = 1 THEN lines[1]
  ELSE lines[1] \o sep \o join(Tail(lines), sep)

Includes(seq, x) == \E i \in 1..Len(seq) : seq[i] = x

\* ---------------------------------------------------------------- names
apps     == <<"a", "p", "p", "s">>
packages == <<"p", "a", "c", "k", "a", "g", "e", "s">>
libs     == <<"l", "i", "b", "s">>
auth     == <<"a", "u", "t", "h">>
gw       == <<"g", "w">>
tmp      == <<"t", "m", "p">>
au       == <<"a", "u">>
Zed      == <<"Z", "e", "d">>

Slash == <<"/">>

\* the directories of ROOT the model keeps track of
TreeDirs == {apps, packages}

\* names of the children a workspace directory may hold
ChildNames == {auth, gw, tmp, au, Zed}

\* the children the operator creates and removes
EditedNames == {auth, gw}

GO_MOD == "go.mod"

\* ---------------------------------------------------------------- file system
NoEntry   == [kind |-> "absent", subdirs |-> {}, files |-> {}]
PlainFile == [kind |-> "file", subdirs |-> {}, files |-> {}]
EmptyDir  == [kind |-> "dir", subdirs |-> {}, files |-> {}]

\* a file of a directory entry: its relative path and its content
File(p, c) == [path |-> p, content |-> c]

ForeignContent == [tmpl |-> "foreign", ctx |-> <<>>]

ModuleDir == [kind |-> "dir", subdirs |-> {},
              files |-> {File(GO_MOD, ForeignContent)}]

\* a directory whose go.mod lies one level further down
NestedModuleDir == [kind |-> "dir", subdirs |-> {"sub"},
                    files |-> {File("sub/go.mod", ForeignContent)}]

HasFile(entry, p) == \E f \in entry.files : f.path = p

DirExistsAlways(t, dir) == dir \in TreeDirs

\* fs.existsSync(path.join(ROOT, dir))
DirExists(t, dir) == dir \in TreeDirs /\ t[dir].exists

\* fs.existsSync(path.join(ROOT, dir, child))
ChildExists(t, dir, child) ==
  DirExists(t, dir) /\ t[dir].children[child].kind # "absent"

\* ---------------------------------------------------------------- sync
pnpm    == <<"p", "n", "p", "m">>
yarn    == <<"y", "a", "r", "n">>
npm     == <<"n", "p", "m">>
unknown == <<"u", "n", "k", "n", "o", "w", "n">>

PNPM_LOCK == "pnpm-lock.yaml"
YARN_LOCK == "yarn.lock"
NPM_LOCK  == "package-lock.json"

\* s.split("@")[0]
RECURSIVE BeforeAt(_)
BeforeAt(s) ==
  IF s = <<>> \/ Head(s) = "@" THEN <<>> ELSE <<Head(s)>> \o BeforeAt(Tail(s))

detectPackageManagerYarnFirst(pj, locks) ==
  IF ~pj.exists THEN unknown
  ELSE IF pj.packageManager # <<>> THEN
    LET name == BeforeAt(pj.packageManager)
    IN  IF name # <<>> THEN name ELSE unknown
  ELSE IF YARN_LOCK \in locks THEN yarn
  ELSE IF PNPM_LOCK \in locks THEN pnpm
  ELSE IF NPM_LOCK \in locks THEN npm
  ELSE unknown

\* packageManager is <<>> when the field is missing or is the empty string:
\* both are falsy at the test of the source.
detectPackageManager(pj, locks) ==
  IF ~pj.exists THEN unknown
  ELSE IF pj.packageManager # <<>> THEN
    LET name == BeforeAt(pj.packageManager)
    IN  IF name # <<>> THEN name ELSE unknown
  ELSE IF PNPM_LOCK \in locks THEN pnpm
  ELSE IF YARN_LOCK \in locks THEN yarn
  ELSE IF NPM_LOCK \in locks THEN npm
  ELSE unknown

\* A line of pnpm-workspace.yaml is kept as [item, glob]: item says that the
\* line matches the list-item pattern, glob is the captured group.
RECURSIVE ItemGlobs(_)
ItemGlobs(lines) ==
  IF lines = <<>> THEN <<>>
  ELSE IF Head(lines).item THEN <<Head(lines).glob>> \o ItemGlobs(Tail(lines))
  ELSE ItemGlobs(Tail(lines))

parsePnpmWorkspace(ws) == IF ~ws.exists THEN <<>> ELSE ItemGlobs(ws.lines)

readPackageJsonWorkspaces(pj) ==
  IF ~pj.exists THEN <<>>
  ELSE IF pj.workspaces.shape = "none" THEN <<>>
  ELSE IF pj.workspaces.shape = "array" THEN pj.workspaces.globs
  ELSE IF pj.workspaces.shape = "object" THEN pj.workspaces.globs
  ELSE <<>>

\* glob.replace(/\/\*\*?$/, "")
StripFirst(g) ==
  IF EndsWith(g, <<"/", "*", "*">>) THEN DropLast(g, 3)
  ELSE IF EndsWith(g, <<"/", "*">>) THEN DropLast(g, 2)
  ELSE g

\* .replace(/\/\*$/, "")
StripSecond(g) == IF EndsWith(g, <<"/", "*">>) THEN DropLast(g, 2) ELSE g

BaseDir(g) == StripSecond(StripFirst(g))

RECURSIVE CollectDirs(_, _)
CollectDirs(globs, dirs) ==
  IF globs = <<>> THEN dirs
  ELSE LET baseDir == BaseDir(Head(globs))
       IN  IF baseDir # <<>> /\ ~Includes(dirs, baseDir)
           THEN CollectDirs(Tail(globs), Append(dirs, baseDir))
           ELSE CollectDirs(Tail(globs), dirs)

resolveWorkspaceGlobs(globs) == sort(CollectDirs(globs, <<>>))

\* the globs getWorkspaceDirs reads, by the detected package manager
WorkspaceGlobs(pj, locks, ws) ==
  IF detectPackageManager(pj, locks) = pnpm
  THEN parsePnpmWorkspace(ws)
  ELSE readPackageJsonWorkspaces(pj)

\* `./${baseDir}/${entry.name}`
ModulePathFlat(baseDir, name) == <<".", "/">> \o name

ModulePath(baseDir, name) == <<".", "/">> \o baseDir \o Slash \o name

\* the entries of readdirSync, in some order: the result is sorted afterwards
RECURSIVE SetToSeq(_)
SetToSeq(S) ==
  IF S = {} THEN <<>>
  ELSE LET x == CHOOSE y \in S : TRUE IN <<x>> \o SetToSeq(S \ {x})

discoverModulesUnsorted(t, baseDir) ==
  IF ~DirExists(t, baseDir) THEN <<>>
  ELSE SetToSeq({ModulePath(baseDir, c) : c \in
         {n \in ChildNames : /\ t[baseDir].children[n].kind = "dir"
                             /\ HasFile(t[baseDir].children[n], GO_MOD)}})

discoverModules(t, baseDir) ==
  IF ~DirExists(t, baseDir) THEN <<>>
  ELSE sort(SetToSeq({ModulePath(baseDir, c) : c \in
         {n \in ChildNames : /\ t[baseDir].children[n].kind = "dir"
                             /\ HasFile(t[baseDir].children[n], GO_MOD)}}))

\* the five comment lines at the head of go.work (the dash of the second
\* line is written in ASCII here)
HeaderLines ==
  << <<"// Auto-generated by scripts/go-workspace-sync.ts">>,
     <<"// Do NOT edit manually - run: pnpm workspace:sync">>,
     <<"//">>,
     <<"// This file allows Go to recognize multiple modules within the repository">>,
     <<"// without needing manual 'replace' directives in each go.mod file.">> >>

GO_VERSION == <<"1", ".", "2", "3">>

VersionLine == <<"g", "o", " ">> \o GO_VERSION

UseLine == <<"u", "s", "e", " ", "(">>

CloseLine == <<")">>

LabelUpperAll(dir) == [i \in 1..Len(dir) |-> toUpperCase(dir[i])]

\* dir.charAt(0).toUpperCase() + dir.slice(1)
Label(dir) == IF dir = <<>> THEN <<>> ELSE <<toUpperCase(Head(dir))>> \o Tail(dir)

Indent(mods) == [k \in 1..Len(mods) |-> <<"\t">> \o mods[k]]

\* the lines one iteration of the loop of generateGoWork pushes
SectionLines(dirEntries, i) ==
  IF dirEntries[i][2] = <<>> THEN <<>>
  ELSE << <<"\t", "/", "/", " ">> \o Label(dirEntries[i][1]) >>
       \o Indent(dirEntries[i][2])
       \o (IF i < Len(dirEntries) THEN << <<>> >> ELSE <<>>)

RECURSIVE SectionsFrom(_, _)
SectionsFrom(dirEntries, i) ==
  IF i > Len(dirEntries) THEN <<>>
  ELSE SectionLines(dirEntries, i) \o SectionsFrom(dirEntries, i + 1)

\* the lines of generateGoWork before the join; modulesByDir is the sequence
\* of <<dir, modules>> pairs of Object.entries
GoWorkLines(modulesByDir) ==
  HeaderLines \o <<VersionLine, <<>>, UseLine>>
    \o SectionsFrom(modulesByDir, 1) \o <<CloseLine, <<>> >>

generateGoWork(modulesByDir) == join(GoWorkLines(modulesByDir), <<"\n">>)

RECURSIVE SumLen(_)
SumLen(entries) ==
  IF entries = <<>> THEN 0 ELSE Len(Head(entries)[2]) + SumLen(Tail(entries))

\* the test that go.work exists and already holds the generated content
UpToDateNever(gwk, content) == FALSE

UpToDate(gwk, content) == gwk.exists /\ gwk.content = content

\* the test that stops a run that found no module
NothingFoundNever(totalModules) == FALSE

NothingFound(totalModules) == totalModules = 0

\* One run of main of go-workspace-sync.ts on the file system given: its exit
\* code, its final report, the go.work it leaves and what it did on the way.
SyncMain(pj, locks, ws, t, gwk) ==
  LET globs   == WorkspaceGlobs(pj, locks, ws)
      scanDirs == resolveWorkspaceGlobs(globs)
      modulesByDir ==
        [i \in 1..Len(scanDirs) |-> <<scanDirs[i], discoverModules(t, scanDirs[i])>>]
      warned  == {scanDirs[i] : i \in {j \in 1..Len(scanDirs) : ~DirExists(t, scanDirs[j])}}
      totalModules == SumLen(modulesByDir)
      content == generateGoWork(modulesByDir)
  IN  IF globs = <<>> THEN
        [exit |-> 1, report |-> "no workspace globs", writes |-> 0, goWork |-> gwk,
         warned |-> {}, modulesByDir |-> <<>>]
      ELSE IF NothingFound(totalModules) THEN
        [exit |-> 1, report |-> "no modules", writes |-> 0, goWork |-> gwk,
         warned |-> warned, modulesByDir |-> modulesByDir]
      ELSE IF UpToDate(gwk, content) THEN
        [exit |-> 0, report |-> "already up to date", writes |-> 0, goWork |-> gwk,
         warned |-> warned, modulesByDir |-> modulesByDir]
      ELSE
        [exit |-> 0, report |-> "synced", writes |-> 1,
         goWork |-> [exists |-> TRUE, content |-> content],
         warned |-> warned, modulesByDir |-> modulesByDir]

NoRun ==
  [exit |-> -1, report |-> "none", writes |-> 0, warned |-> {}, modulesByDir |-> <<>>,
   rerun |-> FALSE]

\* What a run leaves in syncRun. rerun: the run before it exited 0 and nothing
\* of the workspace changed in between.
RunRecord(r, rerun) ==
  [exit |-> r.exit, report |-> r.report, writes |-> r.writes,
   warned |-> r.warned, modulesByDir |-> r.modulesByDir, rerun |-> rerun]

SyncKeepOld ==
  LET r == SyncMain(pkgJson, lockFiles, pnpmWs, tree, goWork)
  IN  /\ goWork' = IF goWork.exists THEN goWork ELSE r.goWork
      /\ syncRun' = RunRecord(r, syncRun.exit = 0 /\ ~dirty)
      /\ dirty' = FALSE
      /\ UNCHANGED <<pkgJson, lockFiles, pnpmWs, tree, inv, dep, inp, out>>

\* pnpm workspace:sync
Sync ==
  LET r == SyncMain(pkgJson, lockFiles, pnpmWs, tree, goWork)
  IN  /\ goWork' = r.goWork
      /\ syncRun' = RunRecord(r, syncRun.exit = 0 /\ ~dirty)
      /\ dirty' = FALSE
      /\ UNCHANGED <<pkgJson, lockFiles, pnpmWs, tree, inv, dep, inp, out>>

\* ---------------------------------------------------------------- workspace
\* The workspace configurations the operator may install.
Glob(dir, wild) == dir \o Slash \o wild

NoPkgJson == [exists |-> FALSE, packageManager |-> <<>>,
              workspaces |-> [shape |-> "none", globs |-> <<>>]]

PkgJson(pmField, shape, globs) ==
  [exists |-> TRUE, packageManager |-> pmField,
   workspaces |-> [shape |-> shape, globs |-> globs]]

NoPnpmWs == [exists |-> FALSE, lines |-> <<>>]

Item(g) == [item |-> TRUE, glob |-> g]

Noise == [item |-> FALSE, glob |-> <<>>]

Configs ==
  { \* pnpm declared, the two usual globs
    [pj |-> PkgJson(pnpm \o <<"@", "9">>, "none", <<>>), locks |-> {PNPM_LOCK},
     ws |-> [exists |-> TRUE,
             lines |-> <<Noise, Item(Glob(apps, <<"*">>)), Item(Glob(packages, <<"*">>))>>]],
    \* yarn, array of globs, out of order, twice the same root, a missing root
    [pj |-> PkgJson(yarn \o <<"@", "1">>, "array",
                    <<Glob(packages, <<"*">>), Glob(libs, <<"*">>),
                      Glob(apps, <<"*", "*">>), Glob(apps, <<"*">>)>>),
     locks |-> {YARN_LOCK}, ws |-> NoPnpmWs],
    \* npm by its lock file, object shape: a glob that strips to the empty
    \* string and a root that does not exist
    [pj |-> PkgJson(<<>>, "object", <<<<"/", "*">>, Glob(libs, <<"*">>)>>),
     locks |-> {NPM_LOCK}, ws |-> NoPnpmWs],
    \* pnpm by its lock file, pnpm-workspace.yaml missing
    [pj |-> PkgJson(<<>>, "none", <<>>), locks |-> {PNPM_LOCK}, ws |-> NoPnpmWs] }

StartConfig ==
  [pj |-> PkgJson(pnpm \o <<"@", "9">>, "none", <<>>), locks |-> {PNPM_LOCK},
   ws |-> [exists |-> TRUE,
           lines |-> <<Noise, Item(Glob(apps, <<"*">>)), Item(Glob(packages, <<"*">>))>>]]

EmptyTreeDir == [exists |-> TRUE, children |-> [n \in ChildNames |-> NoEntry]]

NoTreeDir == [exists |-> FALSE, children |-> [n \in ChildNames |-> NoEntry]]

ChildCount(t) ==
  Cardinality({dc \in TreeDirs \X ChildNames : t[dc[1]].children[dc[2]].kind # "absent"})

\* the operator edits the workspace configuration
SetConfig(c) ==
  /\ <<pkgJson, lockFiles, pnpmWs>> # <<c.pj, c.locks, c.ws>>
  /\ pkgJson' = c.pj
  /\ lockFiles' = c.locks
  /\ pnpmWs' = c.ws
  /\ dirty' = TRUE
  /\ UNCHANGED <<tree, goWork, syncRun, inv, dep, inp, out>>

\* the operator creates, replaces or removes a child of a workspace directory
SetChild(dir, child, entry) ==
  /\ tree[dir].exists
  /\ tree[dir].children[child] # entry
  /\ tree' = [tree EXCEPT ![dir].children[child] = entry]
  /\ ChildCount(tree') <= MaxChildren
  /\ dirty' = TRUE
  /\ UNCHANGED <<pkgJson, lockFiles, pnpmWs, goWork, syncRun, inv, dep, inp, out>>

\* the operator removes an empty workspace directory
RemoveDir(dir) ==
  /\ tree[dir] = EmptyTreeDir
  /\ tree' = [tree EXCEPT ![dir] = NoTreeDir]
  /\ dirty' = TRUE
  /\ UNCHANGED <<pkgJson, lockFiles, pnpmWs, goWork, syncRun, inv, dep, inp, out>>

\* the operator creates a workspace directory
MakeDir(dir) ==
  /\ ~tree[dir].exists
  /\ tree' = [tree EXCEPT ![dir] = EmptyTreeDir]
  /\ dirty' = TRUE
  /\ UNCHANGED <<pkgJson, lockFiles, pnpmWs, goWork, syncRun, inv, dep, inp, out>>

HandEdited == [exists |-> TRUE, content |-> <<"hand-edited">>]

\* the operator deletes go.work
DeleteGoWork ==
  /\ goWork.exists
  /\ goWork' = [exists |-> FALSE, content |-> <<>>]
  /\ dirty' = TRUE
  /\ UNCHANGED <<pkgJson, lockFiles, pnpmWs, tree, syncRun, inv, dep, inp, out>>

\* the operator edits go.work by hand
EditGoWork ==
  /\ goWork # HandEdited
  /\ goWork' = HandEdited
  /\ dirty' = TRUE
  /\ UNCHANGED <<pkgJson, lockFiles, pnpmWs, tree, syncRun, inv, dep, inp, out>>

\* the scaffold processes
Procs == {1, 2}

NoInvocation ==
  [kind |-> "app", argv |-> <<>>, pc |-> "off", exit |-> -1, msg |-> "none",
   name |-> <<>>, deps |-> <<>>, rendered |-> <<>>, made |-> {}, written |-> <<>>,
   ran |-> <<>>, failed |-> "none", failedAt |-> 0, syncExit |-> -1]

NoDeploy ==
  [argv |-> <<>>, envVar |-> <<>>, pc |-> "off", exit |-> -1, error |-> "none",
   candidates |-> <<>>, checked |-> <<>>, selected |-> "", invoked |-> FALSE]

NoInput == [fn |-> "none", arg |-> <<>>]

NoOutput == [fn |-> "none", val |-> FALSE]

InitSync ==
  /\ pkgJson = StartConfig.pj
  /\ lockFiles = StartConfig.locks
  /\ pnpmWs = StartConfig.ws
  /\ tree = [d \in TreeDirs |-> EmptyTreeDir]
  /\ goWork = [exists |-> FALSE, content |-> <<>>]
  /\ dirty = TRUE
  /\ syncRun = NoRun
  /\ inv = [p \in Procs |-> NoInvocation]
  /\ dep = NoDeploy
  /\ inp = NoInput
  /\ out = NoOutput

NextSync ==
  \/ Sync
  \/ \E c \in Configs : SetConfig(c)
  \/ \E d \in TreeDirs, n \in EditedNames, e \in {NoEntry, EmptyDir, ModuleDir} :
       SetChild(d, n, e)
  \/ \E d \in TreeDirs : RemoveDir(d)
  \/ \E d \in TreeDirs : MakeDir(d)
  \/ DeleteGoWork
  \/ EditGoWork

SpecSync == InitSync /\ [][NextSync]_vars

\* ---------------------------------------------------------------- scaffold: arguments
MaxNameLen == 3
MaxTokLen  == 4
MaxRoots   == 3

SeqsUpTo(S, n) == UNION {[1..k -> S] : k \in 0..n}

logger == <<"l", "o", "g", "g", "e", "r">>

DEPS_FLAG == <<"-", "-", "d", "e", "p", "s">>

\* process.argv: the interpreter, the script, then the arguments given
Argv(rest) == << <<"node">>, <<"script">> >> \o rest

\* process.argv[2]; <<>> is the empty string as well as undefined, which the
\* source tells apart nowhere (both are falsy)
NameArg(argv) == IF Len(argv) >= 3 THEN argv[3] ELSE <<>>

\* !name || name.startsWith("--")
IsUsageError(argv) ==
  LET name == NameArg(argv)
  IN  name = <<>> \/ StartsWith(name, <<"-", "-">>)

\* [a-z0-9-]*$
RECURSIVE RestMatches(_)
RestMatches(s) ==
  IF s = <<>> THEN TRUE
  ELSE IF Head(s) \in LowerLetters \cup Digits \cup {"-"} THEN RestMatches(Tail(s))
  ELSE FALSE

NameReLoose(name) ==
  /\ name # <<>>
  /\ Head(name) \in LowerLetters \cup Digits
  /\ RestMatches(Tail(name))

\* /^[a-z][a-z0-9-]*$/.test(name)
NameRe(name) ==
  /\ name # <<>>
  /\ Head(name) \in LowerLetters
  /\ RestMatches(Tail(name))

\* the two validations of main: TRUE when the name passes both
ValidateName(argv) == ~IsUsageError(argv) /\ NameRe(NameArg(argv))

\* Array.prototype.indexOf, 1-based; 0 when x does not occur
indexOf(args, x) ==
  IF Includes(args, x)
  THEN CHOOSE i \in 1..Len(args) : args[i] = x /\ \A j \in 1..(i - 1) : args[j] # x
  ELSE 0

\* the pieces of s from position i on: one piece up to the next separator,
\* then the pieces behind it
RECURSIVE SplitFrom(_, _, _)
SplitFrom(s, c, i) ==
  LET seps == {j \in i..Len(s) : s[j] = c}
      e    == IF seps = {} THEN Len(s) + 1
              ELSE CHOOSE j \in seps : \A k \in seps : j <= k
  IN  <<SubSeq(s, i, e - 1)>> \o (IF e > Len(s) THEN <<>> ELSE SplitFrom(s, c, e + 1))

\* String.prototype.split on a one-character separator
split(s, c) == SplitFrom(s, c, 1)

WhiteSpace == {" ", "\t", "\n", "\r"}

RECURSIVE trimStart(_)
trimStart(s) ==
  IF s # <<>> /\ Head(s) \in WhiteSpace THEN trimStart(Tail(s)) ELSE s

RECURSIVE trimEnd(_)
trimEnd(s) ==
  IF s # <<>> /\ s[Len(s)] \in WhiteSpace THEN trimEnd(DropLast(s, 1)) ELSE s

trimStartOnly(s) == trimStart(s)

\* String.prototype.trim
trim(s) == trimEnd(trimStart(s))

NonEmpty(piece) == piece # <<>>

parseDeps(args) ==
  LET depsIdx == indexOf(args, DEPS_FLAG)
  IN  IF depsIdx = 0 \/ depsIdx >= Len(args) THEN <<logger>>
      ELSE LET pieces == split(args[depsIdx + 1], ",")
           IN  SelectSeq([k \in 1..Len(pieces) |-> trim(pieces[k])], NonEmpty)

\* ---------------------------------------------------------------- pure functions
NameChars == {"a", "z", "A", "0", "-", "_"}

TestNames ==
  { <<"m", "y", "-", "a", "p", "p">>, <<"a", "u", "t", "h", "1", "2", "3">>,
    <<"g", "a", "t", "e", "w", "a", "y">>, <<"M", "y", "-", "A", "p", "p">>,
    <<"1", "2", "3", "a", "p", "p">>, <<"a", "p", "p", "_", "n", "a", "m", "e">>,
    <<"-", "a", "p", "p">>, DEPS_FLAG }

NameInputs ==
  {Argv(<<>>)} \cup {Argv(<<n>>) : n \in SeqsUpTo(NameChars, MaxNameLen) \cup TestNames}

TokChars == {"a", "b", ",", " "}

Tokens == SeqsUpTo(TokChars, MaxTokLen)

DepsInputs ==
  {Argv(<<auth>>), Argv(<<auth, DEPS_FLAG>>), Argv(<<DEPS_FLAG>>)}
    \cup {Argv(<<auth, DEPS_FLAG, t>>) : t \in Tokens}
    \cup {Argv(<<auth, <<"a">>, DEPS_FLAG, t, DEPS_FLAG, <<"b">>>>) : t \in {<<"a", ",", "b">>, DEPS_FLAG}}
    \cup {Argv(<<auth, DEPS_FLAG, logger \o <<",">> \o <<"c", "o", "n", "f", "i", "g">> \o <<",">> \o <<"h", "t", "t", "p">>>>),
          Argv(<<auth, DEPS_FLAG, <<" ">> \o logger \o <<" ", ",", " ">> \o <<"c", "o", "n", "f", "i", "g">> \o <<" ">>>>)}

RootNames == {apps, packages, libs}

ModuleLists(dir) ==
  { <<>>, <<ModulePath(dir, auth)>>, <<ModulePath(dir, gw), ModulePath(dir, auth)>>,
    <<ModulePath(dir, auth), ModulePath(dir, gw)>> }

\* the mappings generateGoWork is applied to: distinct directories in any
\* order, each with a list of module paths
Mappings ==
  UNION {{m \in [1..k -> UNION {{<<d, l>> : l \in ModuleLists(d)} : d \in RootNames}] :
            \A i, j \in 1..k : i # j => m[i][1] # m[j][1]} :
         k \in 0..MaxRoots}

\* the directories discoverModules is applied to: apps with at most
\* MaxEntries children (plain files, empty directories, modules, directories
\* with a go.mod further down), packages removed, libs never there
DiscoverChildren ==
  {c \in [ChildNames -> {NoEntry, PlainFile, EmptyDir, ModuleDir, NestedModuleDir}] :
     Cardinality({n \in ChildNames : c[n] # NoEntry}) <= MaxEntries}

DiscoverInputs ==
  {[t |-> [d \in TreeDirs |-> IF d = apps THEN [exists |-> TRUE, children |-> c]
                                ELSE NoTreeDir],
    baseDir |-> b] : c \in DiscoverChildren, b \in RootNames}

\* the globs resolveWorkspaceGlobs is applied to: one and two trailing
\* wildcard segments, none, a bare wildcard, one that strips to nothing, an
\* upper-case root
GlobPool ==
  {Glob(apps, <<"*">>), Glob(apps, <<"*", "*">>), apps, Glob(packages, <<"*">>),
   Glob(libs, <<"*">>), Glob(Zed, <<"*">>), <<"/", "*">>, <<"*">>,
   Glob(apps, <<"*", "/", "*">>), Glob(apps, <<"*", "/", "*", "*">>),
   Glob(apps, <<"*", "*", "/", "*", "*">>), Glob(apps, <<"*", "*", "/", "*">>)}

GlobInputs == SeqsUpTo(GlobPool, MaxGlobs)

\* the values of the packageManager field: missing, a name and a version, a
\* name alone, a version alone
PmFields ==
  {<<>>, pnpm \o <<"@", "9">>, yarn \o <<"@", "1">>, npm, <<"b", "u", "n">>, <<"@", "9">>}

\* the root package.json, or none, and the lock files next to it
DetectInputs ==
  {[pj |-> j, locks |-> l] :
     j \in {NoPkgJson} \cup {PkgJson(f, "none", <<>>) : f \in PmFields},
     l \in SUBSET {PNPM_LOCK, YARN_LOCK, NPM_LOCK}}

PureInputs ==
  {[fn |-> "validate", arg |-> a] : a \in NameInputs}
    \cup {[fn |-> "parseDeps", arg |-> a] : a \in DepsInputs}
    \cup {[fn |-> "generateGoWork", arg |-> m] : m \in Mappings}
    \cup {[fn |-> "discoverModules", arg |-> a] : a \in DiscoverInputs}
    \cup {[fn |-> "resolveWorkspaceGlobs", arg |-> a] : a \in GlobInputs}
    \cup {[fn |-> "detectPackageManager", arg |-> a] : a \in DetectInputs}

ApplyValidate ==
  /\ inp.fn = "validate" /\ out.fn = "none"
  /\ out' = [fn |-> inp.fn, val |-> ValidateName(inp.arg)]
  /\ UNCHANGED <<pkgJson, lockFiles, pnpmWs, tree, goWork, dirty, syncRun, inv, dep, inp>>

ApplyParseDeps ==
  /\ inp.fn = "parseDeps" /\ out.fn = "none"
  /\ out' = [fn |-> inp.fn, val |-> parseDeps(inp.arg)]
  /\ UNCHANGED <<pkgJson, lockFiles, pnpmWs, tree, goWork, dirty, syncRun, inv, dep, inp>>

ApplyGenerate ==
  /\ inp.fn = "generateGoWork" /\ out.fn = "none"
  /\ out' = [fn |-> inp.fn, val |-> generateGoWork(inp.arg)]
  /\ UNCHANGED <<pkgJson, lockFiles, pnpmWs, tree, goWork, dirty, syncRun, inv, dep, inp>>

ApplyDiscover ==
  /\ inp.fn = "discoverModules" /\ out.fn = "none"
  /\ out' = [fn |-> inp.fn, val |-> discoverModules(inp.arg.t, inp.arg.baseDir)]
  /\ UNCHANGED <<pkgJson, lockFiles, pnpmWs, tree, goWork, dirty, syncRun, inv, dep, inp>>

ApplyResolve ==
  /\ inp.fn = "resolveWorkspaceGlobs" /\ out.fn = "none"
  /\ out' = [fn |-> inp.fn, val |-> resolveWorkspaceGlobs(inp.arg)]
  /\ UNCHANGED <<pkgJson, lockFiles, pnpmWs, tree, goWork, dirty, syncRun, inv, dep, inp>>

ApplyDetect ==
  /\ inp.fn = "detectPackageManager" /\ out.fn = "none"
  /\ out' = [fn |-> inp.fn, val |-> detectPackageManager(inp.arg.pj, inp.arg.locks)]
  /\ UNCHANGED <<pkgJson, lockFiles, pnpmWs, tree, goWork, dirty, syncRun, inv, dep, inp>>

InitPure ==
  /\ pkgJson = StartConfig.pj
  /\ lockFiles = StartConfig.locks
  /\ pnpmWs = StartConfig.ws
  /\ tree = [d \in TreeDirs |-> EmptyTreeDir]
  /\ goWork = [exists |-> FALSE, content |-> <<>>]
  /\ dirty = TRUE
  /\ syncRun = NoRun
  /\ inv = [p \in Procs |-> NoInvocation]
  /\ dep = NoDeploy
  /\ inp \in PureInputs
  /\ out = NoOutput

NextPure ==
  \/ ApplyValidate
  \/ ApplyParseDeps
  \/ ApplyGenerate
  \/ ApplyDiscover
  \/ ApplyResolve
  \/ ApplyDetect

SpecPure == InitPure /\ [][NextPure]_vars

\* ---------------------------------------------------------------- deploy
\* the text of a string of characters
RECURSIVE Str(_)
Str(s) == IF s = <<>> THEN "" ELSE Head(s) \o Str(Tail(s))

ENV_FLAG == <<"-", "-", "e", "n", "v">>

production == <<"p", "r", "o", "d", "u", "c", "t", "i", "o", "n">>
dev        == <<"d", "e", "v">>

\* process.argv[i] with i counted from 0; <<>> for undefined
ArgAt(argv, i) == IF i + 1 <= Len(argv) THEN argv[i + 1] ELSE <<>>

\* envArgIdx !== -1 ? process.argv[envArgIdx + 1] : process.env.DEPLOY_ENV
DeployEnv(argv, envVar) ==
  LET envArgIdx == indexOf(argv, ENV_FLAG)
  IN  IF envArgIdx # 0 THEN ArgAt(argv, envArgIdx) ELSE envVar

CandidatesGenericFirst(deployEnv) ==
  <<"compose.yaml", "compose.yml">>
    \o (IF deployEnv # <<>>
        THEN <<"compose." \o Str(deployEnv) \o ".yaml", "compose." \o Str(deployEnv) \o ".yml">>
        ELSE <<>>)

\* the candidate list of main
Candidates(deployEnv) ==
  (IF deployEnv # <<>>
   THEN <<"compose." \o Str(deployEnv) \o ".yaml", "compose." \o Str(deployEnv) \o ".yml">>
   ELSE <<>>)
    \o <<"compose.yaml", "compose.yml">>

\* fs.existsSync(path.join(dockerDir, file))
ComposeExists(t, serviceName, file) ==
  /\ serviceName \in ChildNames
  /\ t[apps].exists
  /\ t[apps].children[serviceName].kind = "dir"
  /\ HasFile(t[apps].children[serviceName], "docker/" \o file)

SelectOrLast(t, serviceName, candidates) == Len(candidates)

\* the loop over the candidates: the position of the file selected, 0 for null
SelectFirst(t, serviceName, candidates) ==
  LET found == {i \in 1..Len(candidates) : ComposeExists(t, serviceName, candidates[i])}
  IN  IF found = {} THEN 0 ELSE CHOOSE i \in found : \A j \in found : i <= j

\* main of deploy-service.ts up to the call of docker compose
DeployResolve ==
  /\ dep.pc = "start"
  /\ LET serviceName == ArgAt(dep.argv, 2)
         deployEnv   == DeployEnv(dep.argv, dep.envVar)
         candidates  == Candidates(deployEnv)
         sel         == SelectFirst(tree, serviceName, candidates)
     IN  dep' =
           IF serviceName = <<>> THEN
             [dep EXCEPT !.pc = "done", !.exit = 1, !.error = "service name required"]
           ELSE IF ~(serviceName \in ChildNames /\ ChildExists(tree, apps, serviceName)) THEN
             [dep EXCEPT !.pc = "done", !.exit = 1, !.error = "service directory not found"]
           ELSE IF sel = 0 THEN
             [dep EXCEPT !.pc = "done", !.exit = 1, !.error = "no compose file",
                         !.candidates = candidates, !.checked = candidates]
           ELSE
             [dep EXCEPT !.pc = "exec", !.candidates = candidates,
                         !.selected = "docker/" \o candidates[sel]]
  /\ UNCHANGED <<pkgJson, lockFiles, pnpmWs, tree, goWork, dirty, syncRun, inv, inp, out>>

\* docker compose -f <selected> up -d --build returns, with status 0 or not
DeployExec(ok) ==
  /\ dep.pc = "exec"
  /\ dep' = [dep EXCEPT !.pc = "done", !.invoked = TRUE, !.exit = IF ok THEN 0 ELSE 1,
                        !.error = IF ok THEN "none" ELSE "deployment failed"]
  /\ UNCHANGED <<pkgJson, lockFiles, pnpmWs, tree, goWork, dirty, syncRun, inv, inp, out>>

ComposeFiles ==
  {"docker/compose.production.yaml", "docker/compose.production.yml",
   "docker/compose.yaml", "docker/compose.yml", "docker/compose.dev.yaml"}

ServiceEntries ==
  {NoEntry, PlainFile}
    \cup {[kind |-> "dir", subdirs |-> {"docker"},
           files |-> {File(f, ForeignContent) : f \in fs}] : fs \in SUBSET ComposeFiles}

DeployArgvs ==
  {Argv(<<>>), Argv(<<auth>>), Argv(<<gw>>), Argv(<<auth, ENV_FLAG, production>>),
   Argv(<<auth, ENV_FLAG>>), Argv(<<auth, ENV_FLAG, <<>>>>)}

InitDeploy ==
  /\ pkgJson = StartConfig.pj
  /\ lockFiles = StartConfig.locks
  /\ pnpmWs = StartConfig.ws
  /\ \E e \in ServiceEntries :
       tree = [d \in TreeDirs |->
                 IF d = apps
                 THEN [exists |-> TRUE,
                       children |-> [n \in ChildNames |-> IF n = auth THEN e ELSE NoEntry]]
                 ELSE EmptyTreeDir]
  /\ goWork = [exists |-> FALSE, content |-> <<>>]
  /\ dirty = TRUE
  /\ syncRun = NoRun
  /\ inv = [p \in Procs |-> NoInvocation]
  /\ \E a \in DeployArgvs, v \in {<<>>, dev} :
       dep = [NoDeploy EXCEPT !.argv = a, !.envVar = v, !.pc = "start"]
  /\ inp = NoInput
  /\ out = NoOutput

NextDeploy ==
  \/ DeployResolve
  \/ \E ok \in BOOLEAN : DeployExec(ok)

SpecDeploy == InitDeploy /\ [][NextDeploy]_vars

\* ---------------------------------------------------------------- scaffold
\* APPS_DIR of make-app.ts, PACKAGES_DIR of make-package.ts
Root(kind) == IF kind = "app" THEN apps ELSE packages

\* str.charAt(0).toUpperCase() + str.slice(1)
capitalize(str) == IF str = <<>> THEN <<>> ELSE <<toUpperCase(Head(str))>> \o Tail(str)

\* the template variables: StubContext of make-app.ts, of make-package.ts
Context(kind, name, deps) ==
  IF kind = "app"
  THEN [name |-> name, nameTitle |-> capitalize(name), deps |-> deps]
  ELSE [name |-> name, nameTitle |-> <<>>, deps |-> <<>>]

\* the directories ensureDir is called on, below the target directory
SubDirs(kind) == IF kind = "app" THEN {"src", "docker", "env"} ELSE {"src"}

StubsSwapped(kind, name) ==
  IF kind = "app"
  THEN << <<"go.mod", "go.mod.ejs">>,
          <<"src/main.go", "src/main.go.ejs">>,
          <<"package.json", "package.json.ejs">>,
          <<".air.toml", ".air.toml.ejs">>,
          <<"env/.env.example", ".env.example.ejs">>,
          <<"docker/Dockerfile", "Dockerfile.ejs">>,
          <<"docker/compose.local.yaml", "docker/compose.local.yaml.ejs">>,
          <<"docker/compose.dev.yaml", "docker/compose.dev.yaml.ejs">>,
          <<"docker/compose.production.yaml", "docker/compose.production.yaml.ejs">> >>
  ELSE << <<"go.mod", "go.mod.ejs">>,
          <<"src/" \o Str(name) \o ".go", "__name__.go.ejs">>,
          <<"package.json", "package.json.ejs">>,
          <<".air.toml", "air.toml">> >>

\* the entries of the files object of main, in insertion order: the
\* destination and the stub it is rendered from
Stubs(kind, name) ==
  IF kind = "app"
  THEN << <<"src/main.go", "src/main.go.ejs">>,
          <<"go.mod", "go.mod.ejs">>,
          <<"package.json", "package.json.ejs">>,
          <<".air.toml", ".air.toml.ejs">>,
          <<"env/.env.example", ".env.example.ejs">>,
          <<"docker/Dockerfile", "Dockerfile.ejs">>,
          <<"docker/compose.local.yaml", "docker/compose.local.yaml.ejs">>,
          <<"docker/compose.dev.yaml", "docker/compose.dev.yaml.ejs">>,
          <<"docker/compose.production.yaml", "docker/compose.production.yaml.ejs">> >>
  ELSE << <<"src/" \o Str(name) \o ".go", "__name__.go.ejs">>,
          <<"go.mod", "go.mod.ejs">>,
          <<"package.json", "package.json.ejs">>,
          <<".air.toml", "air.toml">> >>

\* ejs.render(template, context): opaque, a function of the stub and the context
renderStub(stubPath, context) == [tmpl |-> stubPath, ctx |-> context]

RenderAll(kind, name, deps) ==
  LET stubs == Stubs(kind, name)
  IN  [i \in 1..Len(stubs) |->
         File(stubs[i][1], renderStub(stubs[i][2], Context(kind, name, deps)))]

\* fs.existsSync(appDir), fs.existsSync(pkgDir)
CollidesNever(t, kind, name) == FALSE

Collides(t, kind, name) == name \in ChildNames /\ ChildExists(t, Root(kind), name)

\* console.error(...); process.exit(1) of the validations
Reject(r, msg) == [r EXCEPT !.pc = "rejected", !.exit = 1, !.msg = msg]

\* an exception nothing catches ends the process with status 1
Crash(r, msg) == [r EXCEPT !.pc = "crashed", !.exit = 1, !.msg = msg]

OnFailureAbort(r, cmd) == [r EXCEPT !.pc = "crashed", !.exit = 1, !.failed = cmd]

\* the catch block of main: a warning, then on to the success message
OnFailure(r, cmd) == [r EXCEPT !.pc = "finish", !.failed = cmd]

\* the two validations of the name
Validate(p) ==
  /\ inv[p].pc = "validate"
  /\ inv' = [inv EXCEPT ![p] =
       IF IsUsageError(inv[p].argv) THEN Reject(inv[p], "usage")
       ELSE IF ~NameRe(NameArg(inv[p].argv)) THEN Reject(inv[p], "invalid name")
       ELSE [inv[p] EXCEPT !.pc = "collision", !.name = NameArg(inv[p].argv)]]
  /\ UNCHANGED <<pkgJson, lockFiles, pnpmWs, tree, goWork, dirty, syncRun, dep, inp, out>>

CheckCollisionLocked(p) ==
  /\ inv[p].pc = "collision"
  /\ inv' = [inv EXCEPT ![p] =
       IF \/ Collides(tree, inv[p].kind, inv[p].name)
          \/ \E q \in Procs \ {p} :
               /\ inv[q].kind = inv[p].kind /\ inv[q].name = inv[p].name
               /\ inv[q].pc \in {"mkdir", "render", "write"}
       THEN Reject(inv[p], "already exists")
       ELSE [inv[p] EXCEPT !.pc = "mkdir",
               !.deps = IF inv[p].kind = "app" THEN parseDeps(inv[p].argv) ELSE <<>>]]
  /\ UNCHANGED <<pkgJson, lockFiles, pnpmWs, tree, goWork, dirty, syncRun, dep, inp, out>>

\* the test that the target does not exist yet, then the dependencies and
\* the context
CheckCollision(p) ==
  /\ inv[p].pc = "collision"
  /\ inv' = [inv EXCEPT ![p] =
       IF Collides(tree, inv[p].kind, inv[p].name) THEN Reject(inv[p], "already exists")
       ELSE [inv[p] EXCEPT !.pc = "mkdir",
               !.deps = IF inv[p].kind = "app" THEN parseDeps(inv[p].argv) ELSE <<>>]]
  /\ UNCHANGED <<pkgJson, lockFiles, pnpmWs, tree, goWork, dirty, syncRun, dep, inp, out>>

\* the calls of ensureDir: mkdirSync fails when the target is a file
MakeDirs(p) ==
  /\ inv[p].pc = "mkdir"
  /\ LET root  == Root(inv[p].kind)
         entry == tree[root].children[inv[p].name]
         fresh == SubDirs(inv[p].kind) \ entry.subdirs
     IN  IF entry.kind = "file"
         THEN /\ inv' = [inv EXCEPT ![p] = Crash(inv[p], "mkdir failed")]
              /\ UNCHANGED <<tree, dirty>>
         ELSE /\ tree' = [tree EXCEPT ![root].exists = TRUE,
                            ![root].children[inv[p].name] =
                               [kind |-> "dir", subdirs |-> entry.subdirs \cup fresh,
                                files |-> entry.files]]
              /\ inv' = [inv EXCEPT ![p].pc = "render", ![p].made = fresh]
              /\ dirty' = (dirty \/ tree' # tree)
  /\ UNCHANGED <<pkgJson, lockFiles, pnpmWs, goWork, syncRun, dep, inp, out>>

RenderInterleaved(p, k) ==
  /\ inv[p].pc = "render"
  /\ k <= Len(Stubs(inv[p].kind, inv[p].name))
  /\ LET all  == RenderAll(inv[p].kind, inv[p].name, inv[p].deps)
         root == Root(inv[p].kind)
         old  == tree[root].children[inv[p].name]
         done == {all[i] : i \in 1..(k - 1)}
     IN  IF k = 0
         THEN /\ inv' = [inv EXCEPT ![p].pc = "write", ![p].rendered = all]
              /\ UNCHANGED <<tree, dirty>>
         ELSE /\ inv' = [inv EXCEPT ![p] =
                   [Crash(inv[p], "render failed") EXCEPT !.failedAt = k,
                      !.written = [i \in 1..(k - 1) |-> all[i].path]]]
              /\ tree' = [tree EXCEPT ![root].children[inv[p].name].files =
                            {g \in old.files : \A f \in done : g.path # f.path} \cup done]
              /\ dirty' = TRUE
  /\ UNCHANGED <<pkgJson, lockFiles, pnpmWs, goWork, syncRun, dep, inp, out>>

\* the files object: every stub is rendered before the first file is
\* written; a stub that is missing or fails to render throws. k is the
\* place of the first stub that fails, 0 when none does.
Render(p, k) ==
  /\ inv[p].pc = "render"
  /\ k <= Len(Stubs(inv[p].kind, inv[p].name))
  /\ inv' = [inv EXCEPT ![p] =
       IF k = 0 THEN [inv[p] EXCEPT !.pc = "write",
                        !.rendered = RenderAll(inv[p].kind, inv[p].name, inv[p].deps)]
       ELSE [Crash(inv[p], "render failed") EXCEPT !.failedAt = k]]
  /\ UNCHANGED <<pkgJson, lockFiles, pnpmWs, tree, goWork, dirty, syncRun, dep, inp, out>>

\* the loop over the files ends after the last entry of the files object
AfterWriteEarly(r) == "sync"

AfterWrite(r) == IF Len(r.written) = Len(r.rendered) THEN "sync" ELSE "write"

\* one writeFileSync of the loop over the files
Write(p) ==
  /\ inv[p].pc = "write"
  /\ LET root == Root(inv[p].kind)
         f    == inv[p].rendered[Len(inv[p].written) + 1]
         old  == tree[root].children[inv[p].name]
     IN  /\ tree' = [tree EXCEPT ![root].children[inv[p].name].files =
                       {g \in old.files : g.path # f.path} \cup {f}]
         /\ inv' = [inv EXCEPT ![p] =
              LET r == [inv[p] EXCEPT !.written = Append(@, f.path)]
              IN  [r EXCEPT !.pc = AfterWrite(r)]]
  /\ dirty' = TRUE
  /\ UNCHANGED <<pkgJson, lockFiles, pnpmWs, goWork, syncRun, dep, inp, out>>

WriteFailCleanup(p) ==
  /\ inv[p].pc = "write"
  /\ inv' = [inv EXCEPT ![p] =
       [Crash(inv[p], "write failed") EXCEPT !.failedAt = Len(inv[p].written) + 1]]
  /\ tree' = [tree EXCEPT ![Root(inv[p].kind)].children[inv[p].name] = NoEntry]
  /\ dirty' = TRUE
  /\ UNCHANGED <<pkgJson, lockFiles, pnpmWs, goWork, syncRun, dep, inp, out>>

\* a writeFileSync that throws: nothing is cleaned up
WriteFail(p) ==
  /\ inv[p].pc = "write"
  /\ inv' = [inv EXCEPT ![p] =
       [Crash(inv[p], "write failed") EXCEPT !.failedAt = Len(inv[p].written) + 1]]
  /\ UNCHANGED <<pkgJson, lockFiles, pnpmWs, tree, goWork, dirty, syncRun, dep, inp, out>>

\* execSync of go-workspace-sync.ts: the script runs to its end and execSync
\* throws on a status other than 0
RunSync(p) ==
  /\ inv[p].pc = "sync"
  /\ LET r == SyncMain(pkgJson, lockFiles, pnpmWs, tree, goWork)
     IN  /\ goWork' = r.goWork
         /\ syncRun' = RunRecord(r, syncRun.exit = 0 /\ ~dirty)
         /\ dirty' = FALSE
         /\ inv' = [inv EXCEPT ![p] =
              LET q == [inv[p] EXCEPT !.ran = Append(@, "sync"), !.syncExit = r.exit]
              IN  IF r.exit = 0 THEN [q EXCEPT !.pc = "setup"] ELSE OnFailure(q, "sync")]
  /\ UNCHANGED <<pkgJson, lockFiles, pnpmWs, tree, dep, inp, out>>

\* execSync of go-workspace-sync.ts throws before the script has run
SyncNotStarted(p) ==
  /\ inv[p].pc = "sync"
  /\ inv' = [inv EXCEPT ![p] = OnFailure([inv[p] EXCEPT !.ran = Append(@, "sync")], "sync")]
  /\ UNCHANGED <<pkgJson, lockFiles, pnpmWs, tree, goWork, dirty, syncRun, dep, inp, out>>

HookPcs == {"setup", "tidy", "install"}

NextHook(pc) ==
  IF pc = "setup" THEN "tidy" ELSE IF pc = "tidy" THEN "install" ELSE "finish"

HookContinue(p, ok) ==
  /\ inv[p].pc \in HookPcs
  /\ inv' = [inv EXCEPT ![p] =
       IF ok THEN [inv[p] EXCEPT !.pc = NextHook(inv[p].pc), !.ran = Append(@, inv[p].pc)]
       ELSE [inv[p] EXCEPT !.pc = NextHook(inv[p].pc), !.ran = Append(@, inv[p].pc),
                           !.failed = inv[p].pc]]
  /\ UNCHANGED <<pkgJson, lockFiles, pnpmWs, tree, goWork, dirty, syncRun, dep, inp, out>>

\* one of the three execSync calls after the sync: pnpm run setup, go mod
\* tidy, pnpm install; ok is its status. What the command itself does to
\* files is its own business and is not followed; main does nothing to the
\* files after the call, whatever the status.
Hook(p, ok) ==
  /\ inv[p].pc \in HookPcs
  /\ inv' = [inv EXCEPT ![p] =
       IF ok THEN [inv[p] EXCEPT !.pc = NextHook(inv[p].pc), !.ran = Append(@, inv[p].pc)]
       ELSE OnFailure([inv[p] EXCEPT !.ran = Append(@, inv[p].pc)], inv[p].pc)]
  /\ UNCHANGED <<pkgJson, lockFiles, pnpmWs, tree, goWork, dirty, syncRun, dep, inp, out>>

FinishFailing(p) ==
  /\ inv[p].pc = "finish"
  /\ inv' = [inv EXCEPT ![p].pc = "done", ![p].msg = "created successfully",
                ![p].exit = IF inv[p].failed = "none" THEN 0 ELSE 1]
  /\ UNCHANGED <<pkgJson, lockFiles, pnpmWs, tree, goWork, dirty, syncRun, dep, inp, out>>

\* the success message; main returns
Finish(p) ==
  /\ inv[p].pc = "finish"
  /\ inv' = [inv EXCEPT ![p].pc = "done", ![p].exit = 0, ![p].msg = "created successfully"]
  /\ UNCHANGED <<pkgJson, lockFiles, pnpmWs, tree, goWork, dirty, syncRun, dep, inp, out>>

csv == <<"b", ",", " ", "a">>

ScaffoldArgvs ==
  {Argv(<<>>), Argv(<<gw>>), Argv(<<auth>>), Argv(<<<<"G", "w">>>>),
   Argv(<<gw, DEPS_FLAG, csv>>), Argv(<<DEPS_FLAG, csv>>)}

Invocation(kind, argv) == [NoInvocation EXCEPT !.kind = kind, !.argv = argv, !.pc = "validate"]

\* the workspace the invocations start in: apps/auth and packages/auth are
\* modules, go.work is absent or lists them
StartTree ==
  [d \in TreeDirs |->
     [exists |-> TRUE, children |-> [n \in ChildNames |-> IF n = auth THEN ModuleDir ELSE NoEntry]]]

StartGoWork ==
  [exists |-> TRUE,
   content |-> generateGoWork(<< <<apps, <<ModulePath(apps, auth)>>>>,
                                 <<packages, <<ModulePath(packages, auth)>>>> >>)]

\* the workspace configurations the invocations may run under: the usual
\* one, one whose globs leave out the packages, one whose only root holds
\* no module, and one without any glob
ScaffoldConfigs ==
  {StartConfig,
   [StartConfig EXCEPT !.ws.lines = <<Item(Glob(apps, <<"*">>))>>],
   [StartConfig EXCEPT !.ws.lines = <<Item(Glob(libs, <<"*">>))>>],
   [StartConfig EXCEPT !.ws = NoPnpmWs]}

InitScaffold ==
  /\ \E c \in ScaffoldConfigs :
       /\ pkgJson = c.pj
       /\ lockFiles = c.locks
       /\ pnpmWs = c.ws
  /\ tree = StartTree
  /\ goWork \in {[exists |-> FALSE, content |-> <<>>], StartGoWork}
  /\ dirty = TRUE
  /\ syncRun = NoRun
  /\ \E k1 \in {"app", "package"}, a1 \in ScaffoldArgvs :
     \E second \in {NoInvocation, Invocation("package", Argv(<<gw>>))} :
       inv = [p \in Procs |-> IF p = 1 THEN Invocation(k1, a1) ELSE second]
  /\ dep = NoDeploy
  /\ inp = NoInput
  /\ out = NoOutput

NextScaffold ==
  \E p \in Procs :
    \/ Validate(p)
    \/ CheckCollision(p)
    \/ MakeDirs(p)
    \/ \E k \in 0..Len(Stubs("app", <<>>)) : Render(p, k)
    \/ Write(p)
    \/ WriteFail(p)
    \/ RunSync(p)
    \/ SyncNotStarted(p)
    \/ \E ok \in BOOLEAN : Hook(p, ok)
    \/ Finish(p)

SpecScaffold == InitScaffold /\ [][NextScaffold]_vars

\* ---------------------------------------------------------------- properties of sync
\* C1: a sync run that follows a run that exited 0, with no file or directory
\* of the workspace changed in between, writes go.work zero times, reports
\* that go.work is already up to date, exits 0 and leaves the bytes of go.work
\* as they were.
C1_IdempotentSync ==
  [][(syncRun.exit = 0 /\ ~dirty /\ Sync) =>
       /\ syncRun'.writes = 0
       /\ syncRun'.report = "already up to date"
       /\ syncRun'.exit = 0
       /\ goWork' = goWork]_vars

C1_Witness ==
  /\ syncRun.rerun
  /\ syncRun.exit = 0
  /\ ~dirty
  /\ goWork.exists

\* C7: a sync run that finds zero workspace globs or discovers zero modules
\* in total exits 1 and neither creates nor modifies go.work; with zero globs
\* no scan root is discovered.
C7_FailedSyncKeepsManifest ==
  [][(~dirty' /\ Sync) =>
       /\ (WorkspaceGlobs(pkgJson, lockFiles, pnpmWs) = <<>> \/ SumLen(syncRun'.modulesByDir) = 0)
            => (syncRun'.exit = 1 /\ syncRun'.writes = 0 /\ goWork' = goWork)
       /\ WorkspaceGlobs(pkgJson, lockFiles, pnpmWs) = <<>>
            => syncRun'.modulesByDir = <<>>]_vars

C7_Witness ==
  /\ syncRun.exit = 1
  /\ syncRun.report = "no modules"
  /\ syncRun.modulesByDir # <<>>
  /\ ~dirty
  /\ goWork.exists
  /\ goWork # HandEdited

\* ---------------------------------------------------------------- properties of the pure functions
NameClass == LowerLetters \cup Digits \cup {"-"}

Accepted(argv) ==
  /\ Len(argv) >= 3
  /\ argv[3] # <<>>
  /\ argv[3][1] \in LowerLetters
  /\ \A i \in 2..Len(argv[3]) : argv[3][i] \in NameClass

\* C3: scaffold accepts its first argument iff it is non-empty, starts with a
\* lowercase letter and continues with lowercase letters, digits and hyphens
\* only; an absent argument, one that starts with -- and the names My-App,
\* 123app, app_name and -app are rejected, my-app, auth123 and gateway pass.
C3_NameValidation ==
  out.fn = "validate" =>
    /\ out.val <=> Accepted(inp.arg)
    /\ (Len(inp.arg) < 3 \/ StartsWith(NameArg(inp.arg), <<"-", "-">>)) => ~out.val
    /\ inp.arg \in {Argv(<<<<"m", "y", "-", "a", "p", "p">>>>),
                    Argv(<<<<"a", "u", "t", "h", "1", "2", "3">>>>),
                    Argv(<<<<"g", "a", "t", "e", "w", "a", "y">>>>)} => out.val
    /\ inp.arg \in {Argv(<<<<"M", "y", "-", "A", "p", "p">>>>),
                    Argv(<<<<"1", "2", "3", "a", "p", "p">>>>),
                    Argv(<<<<"a", "p", "p", "_", "n", "a", "m", "e">>>>),
                    Argv(<<<<"-", "a", "p", "p">>>>)} => ~out.val

C3_Witness ==
  /\ out.fn = "validate"
  /\ inp.arg = Argv(<<<<"a", "0", "-">>>>)
  /\ out.val

\* the positions of tok at which a piece of the comma-separated list starts
PieceStarts(tok) == {1} \cup {i + 1 : i \in {j \in 1..Len(tok) : tok[j] = ","}}

\* the last position of the piece that starts at s (s - 1 for an empty piece)
PieceEnd(tok, s) ==
  IF \E i \in s..Len(tok) : tok[i] = ","
  THEN (CHOOSE i \in s..Len(tok) : tok[i] = "," /\ \A j \in s..(i - 1) : tok[j] # ",") - 1
  ELSE Len(tok)

Solid(tok, s) == {i \in s..PieceEnd(tok, s) : tok[i] \notin WhiteSpace}

\* the piece that starts at s, without its surrounding white space
TrimmedPiece(tok, s) ==
  LET solid == Solid(tok, s)
  IN  SubSeq(tok, CHOOSE i \in solid : \A j \in solid : i <= j,
                  CHOOSE i \in solid : \A j \in solid : i >= j)

\* C4: parseDeps returns ["logger"] when no --deps token occurs or the first
\* one is the last argument; otherwise the pieces of the token after the first
\* --deps, split on commas, trimmed, the empty ones removed, in their order,
\* not sorted and with duplicates kept.
C4_DependencyParsing ==
  out.fn = "parseDeps" =>
    LET args   == inp.arg
        flags  == {i \in 1..Len(args) : args[i] = DEPS_FLAG}
        first  == CHOOSE i \in flags : \A j \in flags : i <= j
    IN  IF flags = {} \/ first = Len(args) THEN out.val = <<logger>>
        ELSE LET tok    == args[first + 1]
                 starts == {s \in PieceStarts(tok) : Solid(tok, s) # {}}
             IN  /\ Len(out.val) = Cardinality(starts)
                 /\ \A s \in starts :
                      out.val[Cardinality({x \in starts : x <= s})] = TrimmedPiece(tok, s)

C4_Witness ==
  /\ out.fn = "parseDeps"
  /\ inp.arg = Argv(<<auth, DEPS_FLAG, <<"b", ",", " ", "b">>>>)
  /\ out.val = << <<"b">>, <<"b">> >>

IsLabelLine(line) == StartsWith(line, <<"\t", "/", "/", " ">>)

\* C5: between two consecutive emitted sections there is exactly one blank
\* line, and there is no blank line between the last emitted section and the
\* closing parenthesis, whatever roots of the mapping have zero modules.
C5_SectionSeparation ==
  out.fn = "generateGoWork" =>
    LET lines == split(out.val, "\n")
    IN  /\ \A i \in 1..Len(lines) :
             (IsLabelLine(lines[i]) /\ \E j \in 1..(i - 1) : IsLabelLine(lines[j]))
               => (lines[i - 1] = <<>> /\ lines[i - 2] # <<>>)
        /\ \A i \in 2..Len(lines) : lines[i] = CloseLine => lines[i - 1] # <<>>

CapFirst(dir) == [i \in 1..Len(dir) |-> IF i = 1 THEN toUpperCase(dir[1]) ELSE dir[i]]

RECURSIVE ExpectedSections(_)
ExpectedSections(m) ==
  IF m = <<>> THEN <<>>
  ELSE (IF Head(m)[2] = <<>> THEN <<>>
        ELSE << <<"\t", "/", "/", " ">> \o CapFirst(Head(m)[1]) >>
             \o [k \in 1..Len(Head(m)[2]) |-> <<"\t">> \o Head(m)[2][k]])
       \o ExpectedSections(Tail(m))

\* C6: the output of generateGoWork is the fixed header lines, the version
\* directive, a blank line, "use (", then for each root with modules, in
\* mapping order, the tab-indented comment with the root name capitalised in
\* its first character only and the root's paths tab-indented in their order,
\* then ")"; a root with no module contributes no line.
C6_ManifestContent ==
  out.fn = "generateGoWork" =>
    LET lines == split(out.val, "\n")
    IN  /\ Len(lines) >= 10
        /\ SubSeq(lines, 1, 5) = HeaderLines
        /\ lines[6] = <<"g", "o", " ", "1", ".", "2", "3">>
        /\ lines[7] = <<>>
        /\ lines[8] = <<"u", "s", "e", " ", "(">>
        /\ SelectSeq(SubSeq(lines, 9, Len(lines)), NonEmpty)
             = ExpectedSections(inp.arg) \o << <<")">> >>

C6_Witness ==
  /\ out.fn = "generateGoWork"
  /\ inp.arg = << <<apps, <<ModulePath(apps, gw), ModulePath(apps, auth)>>>>,
                  <<libs, <<>>>>,
                  <<packages, <<ModulePath(packages, auth)>>>> >>
  /\ Len(split(out.val, "\n")) = 16

\* ---------------------------------------------------------------- properties of deploy
\* the environment tag of the invocation: the argument after --env when the
\* flag occurs, the environment variable when it does not
TagGiven ==
  IF \E i \in 1..Len(dep.argv) : dep.argv[i] = ENV_FLAG
  THEN LET i == CHOOSE k \in 1..Len(dep.argv) :
                  dep.argv[k] = ENV_FLAG /\ \A j \in 1..(k - 1) : dep.argv[j] # ENV_FLAG
       IN  IF i < Len(dep.argv) THEN dep.argv[i + 1] ELSE <<>>
  ELSE dep.envVar

OrderedCandidates ==
  IF TagGiven = production
    THEN <<"compose.production.yaml", "compose.production.yml", "compose.yaml", "compose.yml">>
  ELSE IF TagGiven = dev
    THEN <<"compose.dev.yaml", "compose.dev.yml", "compose.yaml", "compose.yml">>
  ELSE <<"compose.yaml", "compose.yml">>

\* the files of the docker directory of the unit asked for
DockerFiles ==
  IF Len(dep.argv) >= 3 /\ dep.argv[3] \in ChildNames
  THEN {f.path : f \in tree[apps].children[dep.argv[3]].files}
  ELSE {}

ReachedResolver ==
  /\ dep.pc \in {"exec", "done"}
  /\ dep.error \notin {"service name required", "service directory not found"}

\* C8: the candidates are compose.<tag>.yaml, compose.<tag>.yml (with a tag
\* only), compose.yaml, compose.yml, in this order; the first one that exists
\* in the docker directory is selected, never one behind an existing one; with
\* a tag and only compose.yaml on disk the selection is compose.yaml.
C8_CandidateOrdering ==
  ReachedResolver =>
    /\ dep.candidates = OrderedCandidates
    /\ \A i \in 1..Len(OrderedCandidates) :
         (/\ "docker/" \o OrderedCandidates[i] \in DockerFiles
          /\ \A j \in 1..(i - 1) : "docker/" \o OrderedCandidates[j] \notin DockerFiles)
           => dep.selected = "docker/" \o OrderedCandidates[i]
    /\ (TagGiven # <<>> /\ DockerFiles = {"docker/compose.yaml"})
         => dep.selected = "docker/compose.yaml"

C8_Witness ==
  /\ dep.pc = "done"
  /\ dep.invoked
  /\ TagGiven = production
  /\ DockerFiles = {"docker/compose.yaml", "docker/compose.yml", "docker/compose.production.yml"}
  /\ dep.selected = "docker/compose.production.yml"

NoCandidateExists == \A i \in 1..Len(OrderedCandidates) : "docker/" \o OrderedCandidates[i] \notin DockerFiles

UnitRequested == Len(dep.argv) >= 3 /\ dep.argv[3] # <<>>

UnitDirExists ==
  /\ UnitRequested
  /\ dep.argv[3] \in ChildNames
  /\ tree[apps].children[dep.argv[3]].kind # "absent"

\* C9 as claimed: whenever none of the candidate files exists for the unit
\* asked for, deploy exits 1 with an error that lists every candidate file
\* name, in order, and docker compose is never invoked.
C9_NotFoundAsClaimed ==
  (dep.pc = "done" /\ UnitRequested /\ NoCandidateExists) =>
    /\ dep.exit = 1
    /\ dep.checked = OrderedCandidates
    /\ ~dep.invoked

\* C9 as amended: whenever the directory of the unit exists and none of the
\* candidate files exists in its docker directory, deploy exits 1 with an
\* error that lists every candidate file name, in order; when the directory
\* of the unit does not exist, deploy exits 1 with an error that lists no
\* candidate; in both cases docker compose is never invoked.
C9_NotFound ==
  (dep.pc = "done" /\ UnitRequested /\ NoCandidateExists) =>
    /\ dep.exit = 1
    /\ ~dep.invoked
    /\ dep.checked = IF UnitDirExists THEN OrderedCandidates ELSE <<>>

C9_Witness ==
  /\ dep.pc = "done"
  /\ UnitDirExists
  /\ TagGiven = production
  /\ DockerFiles = {"docker/compose.dev.yaml"}
  /\ dep.exit = 1
  /\ dep.checked = <<"compose.production.yaml", "compose.production.yml", "compose.yaml", "compose.yml">>

\* ---------------------------------------------------------------- properties of scaffold
TargetExists(p) ==
  tree[Root(inv[p].kind)].children[inv[p].name].kind # "absent"

\* C2: an invocation whose name fails validation or whose target directory
\* exists is rejected; a rejected invocation exits 1, has created no
\* directory, written no file and run neither sync nor a hook, and none of
\* its steps changes a file or a directory of the workspace or go.work.
C2_RejectionIsAtomic ==
  /\ [](\A p \in Procs :
          /\ inv[p].pc = "rejected" =>
               /\ inv[p].exit = 1
               /\ inv[p].made = {} /\ inv[p].written = <<>> /\ inv[p].ran = <<>>
          /\ (inv[p].pc \notin {"off", "validate"} /\ ~Accepted(inv[p].argv)) =>
               inv[p].pc = "rejected")
  /\ [][\A p \in Procs :
          /\ (inv[p].pc = "collision" /\ inv'[p] # inv[p] /\ TargetExists(p)) =>
               inv'[p].pc = "rejected"
          /\ (inv'[p] # inv[p] /\ inv'[p].pc \in {"collision", "rejected"}) =>
               UNCHANGED fsVars]_vars

C2_Witness ==
  /\ inv[1].pc = "rejected"
  /\ inv[1].msg = "already exists"
  /\ inv[1].kind = "app"
  /\ inv[2].pc = "done"
  /\ tree[apps] = StartTree[apps]

\* C10: when one of the hook commands fails, the failure is caught and
\* reported as a warning, no file of the workspace and no go.work is removed
\* or changed, and the invocation goes on to its success message and ends
\* with status 0.
C10_HookFailureNonFatal ==
  /\ [](\A p \in Procs :
          /\ inv[p].failed \in HookPcs => inv[p].pc \in {"finish", "done"}
          /\ inv[p].pc = "done" => (inv[p].exit = 0 /\ inv[p].msg = "created successfully"))
  /\ [][\A p \in Procs :
          /\ (inv[p].pc \in HookPcs /\ inv'[p].failed # "none") =>
               /\ UNCHANGED fsVars
               /\ inv'[p].written = inv[p].written
               /\ inv'[p].pc = "finish"
          /\ (inv[p].pc = "finish" /\ inv'[p] # inv[p]) =>
               /\ UNCHANGED fsVars
               /\ inv'[p].pc = "done"]_vars

C10_Witness ==
  /\ inv[1].pc = "done"
  /\ inv[1].failed = "tidy"
  /\ inv[1].exit = 0
  /\ inv[1].kind = "app"
  /\ Cardinality(tree[apps].children[gw].files) = 9
  /\ goWork.exists
  /\ goWork # StartGoWork

\* the files an invocation has to write, by their paths
StubPaths(p) ==
  LET stubs == Stubs(inv[p].kind, inv[p].name)
  IN  [i \in 1..Len(stubs) |-> stubs[i][1]]

Terminal == {"done", "rejected", "crashed"}

Lists(gwk, root, name) ==
  /\ gwk.exists
  /\ Includes(split(gwk.content, "\n"), <<"\t", ".", "/">> \o root \o <<"/">> \o name)

\* the workspace globs resolve to the root the kind scaffolds into
RootCovered(kind) ==
  Includes(resolveWorkspaceGlobs(WorkspaceGlobs(pkgJson, lockFiles, pnpmWs)), Root(kind))

Utf16(c) ==
  CASE c = "Z" -> 90 [] c = "a" -> 97 [] c = "d" -> 100 [] c = "e" -> 101
    [] c = "g" -> 103 [] c = "h" -> 104 [] c = "m" -> 109 [] c = "p" -> 112
    [] c = "t" -> 116 [] c = "u" -> 117 [] c = "w" -> 119
    [] c = "*" -> 42 [] c = "/" -> 47 [] c = "b" -> 98 [] c = "c" -> 99
    [] c = "i" -> 105 [] c = "k" -> 107 [] c = "l" -> 108 [] c = "s" -> 115

\* a comes before b in case-sensitive ordinal order
OrdLess(a, b) ==
  \E k \in 1..Len(b) :
    /\ \A i \in 1..(k - 1) : i <= Len(a) /\ a[i] = b[i]
    /\ k > Len(a) \/ Utf16(a[k]) < Utf16(b[k])

\* the children of the scan root that are directories holding go.mod directly
ModuleChildren(t, b) ==
  {n \in ChildNames : /\ t[b].children[n].kind = "dir"
                      /\ \E f \in t[b].children[n].files : f.path = "go.mod"}

PathOf(b, n) == <<".", "/">> \o b \o <<"/">> \o n

\* C13: for an existing scan root, discovery returns the paths
\* ./<scanRoot>/<child> of exactly the immediate children that are
\* directories and hold go.mod directly, each once, in ascending
\* case-sensitive ordinal order of the child names; children gw and auth
\* with go.mod and tmp without it give ./apps/auth, ./apps/gw.
C13_DiscoveryResult ==
  (out.fn = "discoverModules" /\ inp.arg.t[apps].exists /\ inp.arg.baseDir = apps) =>
    LET t    == inp.arg.t
        good == ModuleChildren(t, apps)
        res  == out.val
    IN  /\ Len(res) = Cardinality(good)
        /\ {res[i] : i \in 1..Len(res)} = {PathOf(apps, n) : n \in good}
        /\ \A i \in 1..(Len(res) - 1) :
             \E n, m \in good :
               res[i] = PathOf(apps, n) /\ res[i + 1] = PathOf(apps, m) /\ OrdLess(n, m)
        /\ (t[apps].children =
              [n \in ChildNames |-> IF n \in {gw, auth} THEN ModuleDir
                                    ELSE IF n = tmp THEN EmptyDir ELSE NoEntry]) =>
             res = << <<".", "/", "a", "p", "p", "s", "/", "a", "u", "t", "h">>,
                      <<".", "/", "a", "p", "p", "s", "/", "g", "w">> >>

C13_Witness ==
  /\ out.fn = "discoverModules"
  /\ inp.arg.baseDir = apps
  /\ inp.arg.t[apps].children[Zed] = ModuleDir
  /\ inp.arg.t[apps].children[au] = ModuleDir
  /\ inp.arg.t[apps].children[auth] = ModuleDir
  /\ inp.arg.t[apps].children[gw] = NoEntry
  /\ inp.arg.t[apps].children[tmp] = NoEntry
  /\ out.val = <<PathOf(apps, Zed), PathOf(apps, au), PathOf(apps, auth)>>

\* the scan root is not a directory of the workspace
Missing(d) == d \notin {apps, packages} \/ ~tree[d].exists

\* C14: a scan root that does not exist is not fatal: the run warns about
\* it and finds no module there, and when another scan root holds a module
\* the run ends with status 0 and go.work exists and lists the modules of the
\* other roots.
C14_MissingRootNotFatal ==
  (~dirty /\ syncRun.exit # -1) =>
    LET found == syncRun.modulesByDir
    IN  \A i \in 1..Len(found) :
          Missing(found[i][1]) =>
            /\ found[i][1] \in syncRun.warned
            /\ found[i][2] = <<>>
            /\ \A d \in {apps, packages}, n \in EditedNames :
                 (/\ \E j \in 1..Len(found) : found[j][1] = d
                  /\ tree[d].exists
                  /\ tree[d].children[n] = ModuleDir) =>
                   /\ syncRun.exit = 0
                   /\ Lists(goWork, d, n)

C14_Witness ==
  /\ ~dirty
  /\ syncRun.warned = {libs}
  /\ syncRun.exit = 0
  /\ syncRun.report = "synced"
  /\ tree[packages].children[auth] = ModuleDir
  /\ tree[apps].children[gw] = ModuleDir
  /\ Lists(goWork, packages, auth)
  /\ Lists(goWork, apps, gw)

\* g without its last segment when that segment is * or **, else g
OneLevel(g) ==
  LET n == Len(g)
  IN  IF n >= 3 /\ SubSeq(g, n - 2, n) = <<"/", "*", "*">> THEN SubSeq(g, 1, n - 3)
      ELSE IF n >= 2 /\ SubSeq(g, n - 1, n) = <<"/", "*">> THEN SubSeq(g, 1, n - 2)
      ELSE g

\* C15: the resolver removes exactly one trailing /* or /** of a glob and no
\* more: a glob that ends in two wildcard segments keeps all but the last.
C15_OneLevelStripping ==
  (out.fn = "resolveWorkspaceGlobs" /\ Len(inp.arg) = 1) =>
    out.val = IF OneLevel(inp.arg[1]) = <<>> THEN <<>> ELSE <<OneLevel(inp.arg[1])>>

\* C16: the scan roots hold no empty string and no duplicate, are in
\* ascending order, and hold a root exactly when some glob of the input,
\* stripped of its one trailing wildcard segment, is that non-empty root.
C16_ScanRootSet ==
  out.fn = "resolveWorkspaceGlobs" =>
    LET res == out.val
    IN  /\ \A i \in 1..Len(res) : res[i] # <<>>
        /\ \A i, j \in 1..Len(res) : i # j => res[i] # res[j]
        /\ \A i \in 1..(Len(res) - 1) : OrdLess(res[i], res[i + 1])
        /\ {res[i] : i \in 1..Len(res)} =
             {OneLevel(inp.arg[i]) : i \in 1..Len(inp.arg)} \ {<<>>}

\* the text of the field before its first @
Named(field) ==
  LET ats == {i \in 1..Len(field) : field[i] = "@"}
      k   == IF ats = {} THEN Len(field) + 1
             ELSE CHOOSE i \in ats : \A j \in ats : i <= j
  IN  SubSeq(field, 1, k - 1)

\* the kind the lock files decide: pnpm, then yarn, then npm
ByLockFile(locks) ==
  IF "pnpm-lock.yaml" \in locks THEN <<"p", "n", "p", "m">>
  ELSE IF "yarn.lock" \in locks THEN <<"y", "a", "r", "n">>
  ELSE IF "package-lock.json" \in locks THEN <<"n", "p", "m">>
  ELSE <<"u", "n", "k", "n", "o", "w", "n">>

\* C17 as claimed: the kind is the manager the field names when the field is
\* there; in every other case, also without a root package.json, the lock
\* files decide.
C17_DetectionAsClaimed ==
  out.fn = "detectPackageManager" =>
    LET pj == inp.arg.pj
    IN  IF pj.exists /\ pj.packageManager # <<>>
        THEN Named(pj.packageManager) # <<>> => out.val = Named(pj.packageManager)
        ELSE out.val = ByLockFile(inp.arg.locks)

\* C17: with a root package.json whose packageManager field is not empty,
\* the kind is the text of the field before its first @, and unknown when
\* that text is empty; with a root package.json without the field the lock
\* files decide (pnpm, then yarn, then npm, unknown when there is none);
\* without a root package.json the kind is unknown whatever lock files exist.
C17_Detection ==
  out.fn = "detectPackageManager" =>
    LET pj == inp.arg.pj
    IN  IF ~pj.exists THEN out.val = <<"u", "n", "k", "n", "o", "w", "n">>
        ELSE IF pj.packageManager # <<>>
        THEN out.val = IF Named(pj.packageManager) # <<>> THEN Named(pj.packageManager)
                       ELSE <<"u", "n", "k", "n", "o", "w", "n">>
        ELSE out.val = ByLockFile(inp.arg.locks)

C17_Witness ==
  /\ out.fn = "detectPackageManager"
  /\ ~inp.arg.pj.exists
  /\ inp.arg.locks = {"pnpm-lock.yaml", "yarn.lock"}
  /\ out.val = <<"u", "n", "k", "n", "o", "w", "n">>

\* the place of a step in the order of main
Pos(pc) ==
  CASE pc = "validate" -> 1 [] pc = "collision" -> 2 [] pc = "mkdir" -> 3
    [] pc = "render" -> 4 [] pc = "write" -> 5 [] pc = "sync" -> 6
    [] pc = "setup" -> 7 [] pc = "tidy" -> 8 [] pc = "install" -> 9
    [] pc = "finish" -> 10 [] pc = "done" -> 11

\* C18: an invocation moves only forward through validation, collision
\* check, rendering, writing, sync, hooks and its end: no step is entered
\* again or retried, a file is written once, rejection comes only from
\* validation or the collision check, the sync starts only when every file
\* is written and the hooks start only after a sync that succeeded.
C18_ForwardOnly ==
  /\ [](\A p \in Procs :
          /\ \A i, j \in 1..Len(inv[p].ran) : i # j => inv[p].ran[i] # inv[p].ran[j]
          /\ \A i, j \in 1..Len(inv[p].written) :
               i # j => inv[p].written[i] # inv[p].written[j]
          /\ inv[p].pc \in HookPcs => (inv[p].ran[1] = "sync" /\ inv[p].syncExit = 0))
  /\ [][\A p \in Procs :
          inv'[p] # inv[p] =>
            /\ inv[p].pc \notin Terminal
            /\ inv'[p].pc = "rejected" => inv[p].pc \in {"validate", "collision"}
            /\ inv'[p].pc \notin {"rejected", "crashed"} =>
                 \/ Pos(inv'[p].pc) > Pos(inv[p].pc)
                 \/ /\ inv[p].pc = "write" /\ inv'[p].pc = "write"
                    /\ Len(inv'[p].written) = Len(inv[p].written) + 1
            /\ (inv'[p].pc = "sync" \/ inv'[p].ran # <<>>) => inv'[p].written = StubPaths(p)
            /\ (inv'[p].pc \in HookPcs /\ inv[p].pc \notin HookPcs) => inv[p].pc = "sync"]_vars

C18_Witness ==
  /\ inv[1].pc = "done"
  /\ inv[1].ran = <<"sync", "setup", "tidy", "install">>
  /\ inv[1].kind = "package"
  /\ inv[2].pc = "rejected"
  /\ inv[2].msg = "already exists"

TargetEntry(p) == tree[Root(inv[p].kind)].children[inv[p].name]

\* C19 as claimed: when the rendering or the writing of a file of the set
\* fails, the files that come earlier in the set are on disk.
C19_EarlierFilesRemain ==
  \A p \in Procs :
    (inv[p].pc = "crashed" /\ inv[p].msg \in {"render failed", "write failed"}) =>
      \A i \in 1..(inv[p].failedAt - 1) : HasFile(TargetEntry(p), StubPaths(p)[i])

\* C19: there is no rollback. When the writing of a file fails, the files
\* that come earlier in the set are on disk with their rendered content;
\* when the rendering of a file fails, no file of the set has been written,
\* since every stub is rendered before the first write, and the directories
\* made for the unit are there; the failing step removes and changes nothing.
C19_NoRollback ==
  /\ [](\A p \in Procs :
          /\ (inv[p].pc = "crashed" /\ inv[p].msg = "write failed") =>
               /\ inv[p].written = SubSeq(StubPaths(p), 1, inv[p].failedAt - 1)
               /\ \A i \in 1..(inv[p].failedAt - 1) :
                    inv[p].rendered[i] \in TargetEntry(p).files
          /\ (inv[p].pc = "crashed" /\ inv[p].msg = "render failed") =>
               /\ inv[p].written = <<>>
               /\ TargetEntry(p).kind = "dir"
               /\ inv[p].made \subseteq TargetEntry(p).subdirs)
  /\ [][\A p \in Procs :
          (inv[p].pc # "crashed" /\ inv'[p].pc = "crashed") => UNCHANGED fsVars]_vars

C19_Witness ==
  /\ inv[1].pc = "crashed"
  /\ inv[1].msg = "write failed"
  /\ inv[1].kind = "app"
  /\ inv[1].failedAt = 3
  /\ {f.path : f \in tree[apps].children[gw].files} = {"src/main.go", "go.mod"}
  /\ inv[2].pc = "crashed"
  /\ inv[2].msg = "render failed"
  /\ inv[2].failedAt = 2
  /\ tree[packages].children[gw] = [kind |-> "dir", subdirs |-> {"src"}, files |-> {}]

\* the files of a unit, in the order they are written
FixedFiles(kind, name) ==
  IF kind = "app"
  THEN <<"src/main.go", "go.mod", "package.json", ".air.toml", "env/.env.example",
         "docker/Dockerfile", "docker/compose.local.yaml", "docker/compose.dev.yaml",
         "docker/compose.production.yaml">>
  ELSE <<(IF name = gw THEN "src/gw.go" ELSE "src/" \o Str(name) \o ".go"),
         "go.mod", "package.json", ".air.toml">>

PastCheck(p) == inv[p].pc \notin {"off", "validate", "collision", "rejected"}

\* C21: nothing but the existence of the target directory decides the
\* collision check: an invocation whose target is absent at its check goes
\* on, also when another invocation of the same kind and name is already
\* past its own check; so two invocations can both create directories and
\* write files into the same target.
C21_NoLock ==
  [][\A p \in Procs :
       (inv[p].pc = "collision" /\ inv'[p] # inv[p] /\ ~TargetExists(p)) =>
         inv'[p].pc = "mkdir"]_vars

C21_Witness ==
  /\ inv[1].kind = inv[2].kind
  /\ inv[1].name = inv[2].name
  /\ PastCheck(1) /\ PastCheck(2)
  /\ inv[1].written # <<>> /\ inv[2].written # <<>>
  /\ inv[1].pc = "write" /\ inv[2].pc = "write"
  /\ inv[1].made = {"src"} /\ inv[2].made = {}

\* C22: after a sync run that ended with status 0, whether it wrote or
\* reported up to date, go.work exists and its content is generateGoWork of
\* the modules that run discovered; a run writes go.work at most once, as a
\* whole, and changes no other file or directory.
C22_ManifestCurrent ==
  /\ []((~dirty /\ syncRun.exit = 0) =>
          /\ goWork.exists
          /\ goWork.content = generateGoWork(syncRun.modulesByDir)
          /\ syncRun.writes \in {0, 1}
          /\ syncRun.report \in {"synced", "already up to date"})
  /\ [][~dirty' =>
          /\ UNCHANGED <<pkgJson, lockFiles, pnpmWs, tree>>
          /\ syncRun'.writes = 0 => goWork' = goWork
          /\ syncRun'.writes = 1 => (goWork' # goWork /\ syncRun'.exit = 0)]_vars

C22_Witness ==
  /\ ~dirty
  /\ syncRun.exit = 0
  /\ syncRun.report = "synced"
  /\ syncRun.writes = 1
  /\ syncRun.modulesByDir =
       << <<apps, <<ModulePath(apps, gw)>>>>, <<packages, <<ModulePath(packages, auth)>>>> >>
  /\ goWork.content # HandEdited.content

\* the commands of the try block, in their order
Commands == <<"sync", "setup", "tidy", "install">>

\* C23: the sync and the three hooks run as one sequence under one catch:
\* the commands attempted are a prefix of the sequence, the command that
\* failed is the last one attempted, after a failed sync no hook was
\* attempted, and the invocation goes on to its success message and ends
\* with status 0.
C23_ShortCircuit ==
  /\ [](\A p \in Procs :
          /\ inv[p].ran = SubSeq(Commands, 1, Len(inv[p].ran))
          /\ inv[p].failed # "none" =>
               /\ inv[p].ran # <<>>
               /\ inv[p].ran[Len(inv[p].ran)] = inv[p].failed
               /\ inv[p].pc \in {"finish", "done"}
          /\ inv[p].failed = "sync" => inv[p].ran = <<"sync">>
          /\ inv[p].pc = "done" =>
               (inv[p].exit = 0 /\ inv[p].msg = "created successfully"))
  /\ [][\A p \in Procs :
          (inv[p].failed # "none" /\ inv'[p] # inv[p]) =>
            /\ inv'[p].ran = inv[p].ran
            /\ inv'[p].pc = "done"]_vars

C23_Witness ==
  /\ inv[1].pc = "done"
  /\ inv[1].failed = "sync"
  /\ inv[1].syncExit = -1
  /\ inv[1].ran = <<"sync">>
  /\ inv[1].exit = 0
  /\ inv[2].pc = "done"
  /\ inv[2].failed = "setup"
  /\ inv[2].ran = <<"sync", "setup">>

\* another invocation of the same kind and name ended in a failed rendering
Poisoned(p) ==
  \E q \in Procs \ {p} :
    /\ inv[q].pc = "crashed" /\ inv[q].msg = "render failed"
    /\ inv[q].kind = inv[p].kind /\ inv[q].name = inv[p].name

\* C24: an invocation makes its directories, then renders every stub, and
\* only then writes its first file. When a stub fails to render, the
\* invocation has written no file, its target directory exists, it ends
\* with neither sync nor hook attempted, and an invocation of the same kind
\* and name that checks for a collision afterwards is rejected.
C24_RenderBeforeWrite ==
  /\ [](\A p \in Procs :
          (inv[p].pc = "crashed" /\ inv[p].msg = "render failed") =>
            /\ inv[p].written = <<>> /\ inv[p].ran = <<>>
            /\ inv[p].rendered = <<>>
            /\ TargetEntry(p).kind = "dir"
            /\ SubDirs(inv[p].kind) \subseteq TargetEntry(p).subdirs
            /\ inv[p].exit = 1)
  /\ [][\A p \in Procs :
          /\ (inv'[p].pc = "render" /\ inv[p].pc # "render") =>
               (inv[p].pc = "mkdir" /\ SubDirs(inv[p].kind) \subseteq TargetEntry(p).subdirs')
          /\ inv'[p].written # inv[p].written =>
               (inv[p].pc = "write" /\ Len(inv[p].rendered) = Len(StubPaths(p)))
          /\ (inv[p].pc = "collision" /\ inv'[p] # inv[p] /\ Poisoned(p)) =>
               (inv'[p].pc = "rejected" /\ inv'[p].msg = "already exists")
          /\ (inv[p].pc = "crashed" /\ inv[p].msg = "render failed") => inv'[p] = inv[p]]_vars

C24_Witness ==
  /\ inv[1].pc = "crashed"
  /\ inv[1].msg = "render failed"
  /\ inv[1].failedAt = 4
  /\ inv[1].kind = "package"
  /\ tree[packages].children[gw] = [kind |-> "dir", subdirs |-> {"src"}, files |-> {}]
  /\ inv[2].pc = "rejected"
  /\ inv[2].msg = "already exists"

====
